---- MODULE Spec2Model ----
(***************************************************************************)
(* Schedule Helper (src/schedule.py): a date-scoped table of activities    *)
(* whose Duration (min) and % of 12h columns are derived from Start/End,   *)
(* saved to one JSON file per day and summarised by a pie chart and a      *)
(* category breakdown.                                                     *)
(*                                                                         *)
(* Text is modelled as a sequence of one-character strings so that         *)
(* str(), strip() and strptime() are computed character by character.      *)
(* A table cell is a record [k, s]: k = "str" with the text s, k = "none"  *)
(* for Python None, k = "nan" for a float NaN.  A number cell is a record  *)
(* [nan, v]; percentages are carried in tenths of a percent.               *)
(***************************************************************************)
EXTENDS Integers, Sequences, FiniteSets, TLC

VARIABLES
    data,            \* st.session_state["data"]: sequence of rows
    last_edited_df,  \* st.session_state["last_edited_df"]
    current_date,    \* st.session_state.current_date, as a day offset
    sort_column,     \* st.session_state.sort_column ("None" when unset)
    sort_ascending,  \* st.session_state.sort_ascending
    chart_group,     \* st.session_state.chart_group
    files,           \* DATA_DIR: day -> saved table, or NoFile
    edits,           \* number of user edits made in the data editor so far
    saves,           \* number of times Save has been pressed so far
    calc_in,         \* argument of a direct call of calculate_metrics
    calc_out,        \* its result
    calc_again,      \* the result of calling it on calc_out
    calc_calls,      \* how many times it has been applied (0, 1, 2)
    chart_df,        \* argument of create_simple_pie_chart / the summary
    chart_field,     \* group_field argument
    chart_out,       \* the chart produced
    summary_out,     \* the summary statistics produced
    render_pc        \* "start", "chart" (chart drawn), "done" (summary drawn)

appVars == <<data, last_edited_df, current_date, sort_column, sort_ascending,
             chart_group, files, edits, saves>>
calcVars == <<calc_in, calc_out, calc_again, calc_calls>>
chartVars == <<chart_df, chart_field, chart_out, summary_out, render_pc>>
vars == <<data, last_edited_df, current_date, sort_column, sort_ascending,
          chart_group, files, edits, saves, calc_in, calc_out, calc_again, calc_calls,
          chart_df, chart_field, chart_out, summary_out, render_pc>>

---------------------------------------------------------------------------
(* Bounds of the model *)

MaxRows == 2
MaxDay == 1
MaxEdits == 3
MaxSaves == 1
MaxCalcRows == 2
MaxChartRows == 2
MaxSortRows == 3

---------------------------------------------------------------------------
(* Values *)

Digits == {"0", "1", "2", "3", "4", "5", "6", "7", "8", "9"}

DigitVal(c) ==
    CASE c = "0" -> 0 [] c = "1" -> 1 [] c = "2" -> 2 [] c = "3" -> 3
      [] c = "4" -> 4 [] c = "5" -> 5 [] c = "6" -> 6 [] c = "7" -> 7
      [] c = "8" -> 8 [] c = "9" -> 9

StrCell(s) == [k |-> "str", s |-> s]
NoneCell == [k |-> "none", s |-> <<>>]
NanCell == [k |-> "nan", s |-> <<>>]

Num(v) == [nan |-> FALSE, v |-> v]
NanNum == [nan |-> TRUE, v |-> 0]

NanStr == <<"n", "a", "n">>
NoneStr == <<"N", "o", "n", "e">>

\* str(x) of a cell value
PyStr(c) ==
    CASE c.k = "str" -> c.s
      [] c.k = "none" -> NoneStr
      [] c.k = "nan" -> NanStr

\* pandas notna(): None and NaN are missing, every str (also "") is not
NotNa(c) == c.k = "str"

TOTAL_MINUTES == 12 * 60

\* str.strip(): the whitespace of the model's alphabet is the blank
IsSpace(c) == c = " "

RECURSIVE LStrip(_)
LStrip(s) == IF s # <<>> /\ IsSpace(Head(s)) THEN LStrip(Tail(s)) ELSE s

RECURSIVE RStrip(_)
RStrip(s) ==
    IF s # <<>> /\ IsSpace(s[Len(s)]) THEN RStrip(SubSeq(s, 1, Len(s) - 1)) ELSE s

Strip(s) == RStrip(LStrip(s))

---------------------------------------------------------------------------
(* datetime.strptime(s, "%H:%M")                                           *)
(* The format compiles to (2[0-3]|[0-1]\d|\d):([0-5]\d|\d), matched at the *)
(* start of s; text left over after the match is a ValueError.             *)

HourOk(h) ==
    \/ Len(h) = 1 /\ h[1] \in Digits
    \/ Len(h) = 2 /\ h[1] = "2" /\ h[2] \in {"0", "1", "2", "3"}
    \/ Len(h) = 2 /\ h[1] \in {"0", "1"} /\ h[2] \in Digits

MinuteOk(m) ==
    \/ Len(m) = 1 /\ m[1] \in Digits
    \/ Len(m) = 2 /\ m[1] \in {"0", "1", "2", "3", "4", "5"} /\ m[2] \in Digits

RECURSIVE IntOf(_)
IntOf(ds) ==
    IF ds = <<>> THEN 0
    ELSE 10 * IntOf(SubSeq(ds, 1, Len(ds) - 1)) + DigitVal(ds[Len(ds)])

ParseError == [ok |-> FALSE, hour |-> 0, minute |-> 0]

Strptime(s) ==
    LET n == Len(s)
        colon == IF n >= 2 /\ s[2] = ":" THEN 2
                 ELSE IF n >= 3 /\ s[3] = ":" THEN 3 ELSE 0
    IN  IF colon = 0 THEN ParseError
        ELSE LET h == SubSeq(s, 1, colon - 1)
                 m == SubSeq(s, colon + 1, n)
             IN  IF HourOk(h) /\ MinuteOk(m)
                 THEN [ok |-> TRUE, hour |-> IntOf(h), minute |-> IntOf(m)]
                 ELSE ParseError

\* seconds of datetime(1900, 1, 1, hour, minute) since that day's midnight
DateTimeSec(t) == (t.hour * 60 + t.minute) * 60

DaySec == 24 * 60 * 60

---------------------------------------------------------------------------
(* round(total / TOTAL_MINUTES * 100, 1), in tenths of a percent.          *)
(* total / 720 * 100 is computed in IEEE doubles.  It can only decide the  *)
(* rounding when the exact quotient lies half way between two tenths       *)
(* (total = 9 mod 18): there the double is usually exact (x.25 or x.75)    *)
(* and round() goes to the even tenth, and for the totals below it lands   *)
(* one ulp above or below the tie.  The tables cover totals below 3700.    *)

FloatAbove == {99, 441, 747, 837, 1449, 1539, 1629, 1719, 1809, 2943, 3033,
               3123, 3213, 3303, 3393, 3483, 3573, 3663}
FloatBelow == {207, 369, 459, 783, 873, 1521, 1611, 1701, 1791, 2907, 2997,
               3087, 3177, 3267, 3357, 3447, 3537, 3627}

\* rounding every tie upwards
Round1HalfUp(total) ==
    LET n == total * 1000
    IN  IF 2 * (n % TOTAL_MINUTES) >= TOTAL_MINUTES
        THEN (n \div TOTAL_MINUTES) + 1 ELSE n \div TOTAL_MINUTES

\* cutting the digits after the first decimal place
Round1Floor(total) == (total * 1000) \div TOTAL_MINUTES

\* a percentage capped at 100
Round1Clamped(total) ==
    IF total >= TOTAL_MINUTES THEN 1000 ELSE Round1Floor(total)

Round1(total) ==
    LET n == total * 1000
        q == n \div TOTAL_MINUTES
        r == n % TOTAL_MINUTES
    IN  IF 2 * r < TOTAL_MINUTES THEN q
        ELSE IF 2 * r > TOTAL_MINUTES THEN q + 1
        ELSE IF total \in FloatAbove THEN q + 1
        ELSE IF total \in FloatBelow THEN q
        ELSE IF q % 2 = 0 THEN q ELSE q + 1

---------------------------------------------------------------------------
(* calculate_metrics *)

create_empty_df == <<>>

\* start and end exchanged in the difference
DurationMinSwapped(st, en) ==
    LET start == DateTimeSec(en)
        end0 == DateTimeSec(st)
        end == IF end0 < start THEN end0 + DaySec ELSE end0
    IN  ((end - start) % DaySec) \div 60

\* total_seconds() of the difference, End never moved to the next day
DurationMinSameDay(st, en) == (DateTimeSec(en) - DateTimeSec(st)) \div 60

\* lines 252-260: both times parsed; the duration in minutes
DurationMin(st, en) ==
    LET start == DateTimeSec(st)
        end0 == DateTimeSec(en)
        end == IF end0 < start THEN end0 + DaySec ELSE end0
    IN  ((end - start) % DaySec) \div 60

\* the duration added to what the row already holds
RowMetricsAccumulate(row) ==
    LET st == Strptime(Strip(PyStr(row.Start)))
        en == Strptime(Strip(PyStr(row.End)))
        held == IF row.Duration.nan THEN 0 ELSE row.Duration.v
    IN  IF st.ok /\ en.ok
        THEN [row EXCEPT !.Duration = Num(held + DurationMin(st, en)),
                         !.Pct = Num(Round1(held + DurationMin(st, en)))]
        ELSE [row EXCEPT !.Duration = Num(0), !.Pct = Num(0)]

\* the loop body, lines 243-273, on one row
RowMetrics(row) ==
    LET start_time == PyStr(row.Start)
        end_time == PyStr(row.End)
    IN  IF /\ start_time # <<>>
           /\ end_time # <<>>
           /\ start_time # NanStr
           /\ end_time # NanStr
        THEN LET st == Strptime(Strip(start_time))
                 en == Strptime(Strip(end_time))
             IN  IF st.ok /\ en.ok
                 THEN LET duration_min == DurationMin(st, en)
                      IN  [row EXCEPT !.Duration = Num(duration_min),
                                      !.Pct = Num(Round1(duration_min))]
                 ELSE [row EXCEPT !.Duration = Num(0), !.Pct = Num(0)]
        ELSE row

calculate_metrics(df) ==
    IF Len(df) = 0 THEN create_empty_df
    ELSE [i \in 1..Len(df) |-> RowMetrics(df[i])]

---------------------------------------------------------------------------
(* Rows and string order *)

Row(start, end, cat, act, com, dur, pct) ==
    [Start |-> start, End |-> end, Category |-> cat, Activity |-> act,
     Comment |-> com, Duration |-> dur, Pct |-> pct]

\* the characters of the model in code point order
Alphabet == <<" ", "0", "1", "2", "3", "4", "5", "6", "7", "8", "9", ":",
              "N", "R", "W", "a", "e", "n", "o", "w", "x">>

CharRank(c) == CHOOSE i \in 1..Len(Alphabet) : Alphabet[i] = c

\* Python's < on str
RECURSIVE StrLess(_, _)
StrLess(a, b) ==
    IF b = <<>> THEN FALSE
    ELSE IF a = <<>> THEN TRUE
    ELSE IF Head(a) = Head(b) THEN StrLess(Tail(a), Tail(b))
    ELSE CharRank(Head(a)) < CharRank(Head(b))

---------------------------------------------------------------------------
(* create_simple_pie_chart and the summary's Category Breakdown *)

NoDataChart == [label |-> "No data", buckets |-> <<>>]

\* lines 301-304: the rows that take part in the chart
ValidRow(row, group_field) ==
    /\ NotNa(row[group_field])
    /\ ~row.Duration.nan
    /\ PyStr(row[group_field]) # <<>>
    /\ PyStr(row[group_field]) # NanStr

\* sum of Duration (min) over the rows at the positions idx, NaN skipped
RECURSIVE SumDuration(_, _)
SumDuration(df, idx) ==
    IF idx = {} THEN 0
    ELSE LET i == CHOOSE j \in idx : TRUE
         IN  (IF df[i].Duration.nan THEN 0 ELSE df[i].Duration.v)
             + SumDuration(df, idx \ {i})

\* the keys of a groupby in its output order (sorted ascending)
RECURSIVE SortedKeys(_)
SortedKeys(keys) ==
    IF keys = {} THEN <<>>
    ELSE LET least == CHOOSE a \in keys : \A b \in keys \ {a} : StrLess(a, b)
         IN  <<least>> \o SortedKeys(keys \ {least})

\* df.groupby(group_field)["Duration (min)"].sum().reset_index() over the
\* rows at the positions idx: NA keys are dropped, other keys group by equality
GroupSum(df, idx, group_field) ==
    LET keyed == {i \in idx : NotNa(df[i][group_field])}
        keys == SortedKeys({df[i][group_field].s : i \in keyed})
    IN  [n \in 1..Len(keys) |->
            [key |-> keys[n],
             minutes |-> SumDuration(df, {i \in keyed : df[i][group_field].s = keys[n]})]]

create_simple_pie_chart(df, group_field) ==
    IF Len(df) = 0 THEN NoDataChart
    ELSE LET valid_data == {i \in 1..Len(df) : ValidRow(df[i], group_field)}
         IN  IF valid_data = {} THEN NoDataChart
             ELSE LET agg_data == GroupSum(df, valid_data, group_field)
                  IN  [label |-> "chart",
                       buckets |-> [n \in 1..Len(agg_data) |->
                           [key |-> agg_data[n].key,
                            minutes |-> agg_data[n].minutes,
                            Percent |-> Round1(agg_data[n].minutes)]]]

\* sort_values("Duration (min)", ascending=False) of the grouped table:
\* larger totals first, equal totals in the order they had
RECURSIVE SortByMinutesDesc(_)
SortByMinutesDesc(seq) ==
    IF seq = <<>> THEN <<>>
    ELSE LET top == CHOOSE i \in 1..Len(seq) :
                        /\ \A j \in 1..Len(seq) : seq[j].minutes <= seq[i].minutes
                        /\ \A j \in 1..(i - 1) : seq[j].minutes < seq[i].minutes
             rest == [j \in 1..(Len(seq) - 1) |-> IF j < top THEN seq[j] ELSE seq[j + 1]]
         IN  <<seq[top]>> \o SortByMinutesDesc(rest)

NoSummary == [shown |-> FALSE, total_minutes |-> 0, breakdown |-> <<>>]

\* lines 674-709; Hours and % of Total are display columns computed from each
\* bucket's minutes and the total
SummaryStatistics(df) ==
    IF Len(df) > 0
    THEN [shown |-> TRUE,
          total_minutes |-> SumDuration(df, 1..Len(df)),
          breakdown |->
              IF \E i \in 1..Len(df) : NotNa(df[i].Category)
              THEN SortByMinutesDesc(GroupSum(df, 1..Len(df), "Category"))
              ELSE <<>>]
    ELSE NoSummary

---------------------------------------------------------------------------
(* Files: load_data and save_data *)

\* the days the session visits, as offsets from date.today()
Days == 0..MaxDay

NoFile == [exists |-> FALSE, rows |-> <<>>]

TextColumns == {"Start", "End", "Category", "Activity", "Comment"}
col_names == {"Start", "End", "Category", "Activity", "Comment", "Duration", "Pct"}

\* df[col].astype(str) on one value read back from JSON
AsTypeStr(c) == StrCell(PyStr(c))

\* lines 189-208 on one record of the file
LoadedRow(rec) ==
    Row(AsTypeStr(rec.Start), AsTypeStr(rec.End), AsTypeStr(rec.Category),
        AsTypeStr(rec.Activity), AsTypeStr(rec.Comment), rec.Duration, rec.Pct)

load_data(fs, d) ==
    IF fs[d].exists
    THEN [i \in 1..Len(fs[d].rows) |-> LoadedRow(fs[d].rows[i])]
    ELSE create_empty_df

save_data(fs, d, df) == [fs EXCEPT ![d] = [exists |-> TRUE, rows |-> df]]

---------------------------------------------------------------------------
(* sort_values(by, ascending): missing values last, equal keys in the      *)
(* order they had                                                          *)

IsNa(row, by) == IF by \in TextColumns THEN ~NotNa(row[by]) ELSE row[by].nan

KeyLess(a, b, by) ==
    IF by \in TextColumns THEN StrLess(a[by].s, b[by].s) ELSE a[by].v < b[by].v

RECURSIVE SortPresent(_, _, _)
SortPresent(seq, by, ascending) ==
    IF seq = <<>> THEN <<>>
    ELSE LET Before(a, b) == IF ascending THEN KeyLess(a, b, by) ELSE KeyLess(b, a, by)
             first == CHOOSE i \in 1..Len(seq) :
                          /\ \A j \in 1..Len(seq) : ~Before(seq[j], seq[i])
                          /\ \A j \in 1..(i - 1) : Before(seq[i], seq[j])
             rest == [j \in 1..(Len(seq) - 1) |-> IF j < first THEN seq[j] ELSE seq[j + 1]]
         IN  <<seq[first]>> \o SortPresent(rest, by, ascending)

\* rows with a missing key left out
sort_valuesDropNa(df, by, ascending) ==
    SortPresent(SelectSeq(df, LAMBDA r : ~IsNa(r, by)), by, ascending)

sort_values(df, by, ascending) ==
    SortPresent(SelectSeq(df, LAMBDA r : ~IsNa(r, by)), by, ascending)
        \o SelectSeq(df, LAMBDA r : IsNa(r, by))

---------------------------------------------------------------------------
(* The data editor, lines 435-514.  st.data_editor is taken to return the  *)
(* table it shows with the user's edits applied, the derived columns       *)
(* (disabled in column_config) as they were shown; the branch that resets  *)
(* the data when the widget raises (lines 516-518) is not entered.         *)

EmptyStr == <<>>

BlankRow == Row(StrCell(EmptyStr), StrCell(EmptyStr), StrCell(EmptyStr),
                StrCell(EmptyStr), StrCell(EmptyStr), Num(0), Num(0))

\* a row appended in the grid: every cell empty
AddedRow == Row(NoneCell, NoneCell, NoneCell, NoneCell, NoneCell, NanNum, NanNum)

\* lines 437-449: what the grid shows
edit_df(df) == IF Len(df) = 0 THEN <<BlankRow>> ELSE df

\* One run of the script with no widget event pending: the grid returns what
\* it shows; if that differs from last_edited_df the metrics are recomputed
\* and the script reruns (lines 509-514), until nothing changes.
RECURSIVE RunEditor(_, _)
RunEditor(df, last) ==
    LET edited_df == edit_df(df)
    IN  IF edited_df # last
        THEN RunEditor(calculate_metrics(edited_df), edited_df)
        ELSE [data |-> df, last_edited_df |-> last]

\* The run in which the grid returns the user's edit: lines 509-514, then
\* the reruns.
HandleEdit(edited_df) == RunEditor(calculate_metrics(edited_df), edited_df)

---------------------------------------------------------------------------
(* Inputs *)

DigitChars == <<"0", "1", "2", "3", "4", "5", "6", "7", "8", "9">>
TwoDigits(n) == <<DigitChars[(n \div 10) + 1], DigitChars[(n % 10) + 1]>>
T(h, m) == h \o <<":">> \o m
Clock(hour, minute) == T(TwoDigits(hour), TwoDigits(minute))

\* what the user types into a cell of the grid
EditPool(col) ==
    CASE col \in {"Start", "End"} ->
            {StrCell(EmptyStr), StrCell(Clock(23, 30)), StrCell(Clock(0, 15)),
             StrCell(<<"x">>)}
      [] col = "Category" -> {StrCell(EmptyStr), StrCell(<<"W">>)}
      [] col = "Activity" -> {StrCell(<<"a">>)}
      [] col = "Comment" -> {StrCell(<<"x">>)}

---------------------------------------------------------------------------
(* The application: one action per script run started by a widget event *)

AppInit ==
    LET fs == [d \in Days |-> NoFile]
        loaded == calculate_metrics(load_data(fs, 0))
        first == HandleEdit(edit_df(loaded))
    IN  /\ files = fs
        /\ current_date = 0
        /\ chart_group = "Category"
        /\ sort_column = "None"
        /\ sort_ascending = TRUE
        /\ data = first.data
        /\ last_edited_df = first.last_edited_df
        /\ edits = 0
        /\ saves = 0

\* lines 404-406 / 415-417, then 423-426 and the editor
Navigate(step) ==
    /\ current_date + step \in Days
    /\ current_date' = current_date + step
    /\ LET loaded == calculate_metrics(load_data(files, current_date + step))
           r == RunEditor(loaded, last_edited_df)
       IN  /\ data' = r.data
           /\ last_edited_df' = r.last_edited_df
    /\ UNCHANGED <<sort_column, sort_ascending, chart_group, files, edits, saves>>

PrevDay == Navigate(0 - 1)
NextDay == Navigate(1)

\* the grid returns edited_df, a change of the table shown
Edited(edited_df) ==
    /\ edits < MaxEdits
    /\ edited_df # edit_df(data)
    /\ edits' = edits + 1
    /\ LET r == HandleEdit(edited_df)
       IN  /\ data' = r.data
           /\ last_edited_df' = r.last_edited_df
    /\ UNCHANGED <<current_date, sort_column, sort_ascending, chart_group, files, saves>>

EditCell ==
    \E i \in 1..Len(data), col \in TextColumns :
        \E val \in EditPool(col) :
            Edited([edit_df(data) EXCEPT ![i][col] = val])

AddRow ==
    /\ Len(data) < MaxRows
    /\ Edited(Append(edit_df(data), AddedRow))

DeleteRow ==
    \E i \in 1..Len(data) :
        Edited([j \in 1..(Len(data) - 1) |-> IF j < i THEN data[j] ELSE data[j + 1]])

\* lines 377-391 and 532-534, then the rerun
sort_data_by_column(column_name) ==
    LET asc == IF sort_column = column_name THEN ~sort_ascending ELSE TRUE
        r == RunEditor(sort_values(data, column_name, asc), last_edited_df)
    IN  /\ sort_column' = column_name
        /\ sort_ascending' = asc
        /\ data' = r.data
        /\ last_edited_df' = r.last_edited_df
        /\ UNCHANGED <<current_date, chart_group, files, edits, saves>>

\* the sort buttons the user presses
SortPool == {"Start", "Category", "Duration"}

SortButton == \E c \in SortPool : sort_data_by_column(c)

\* lines 537-540, then the rerun
Recalculate ==
    /\ LET r == RunEditor(calculate_metrics(data), last_edited_df)
       IN  /\ data' = r.data
           /\ last_edited_df' = r.last_edited_df
    /\ UNCHANGED <<current_date, sort_column, sort_ascending, chart_group, files, edits, saves>>

\* lines 547-549
Save ==
    /\ saves < MaxSaves
    /\ saves' = saves + 1
    /\ files' = save_data(files, current_date, data)
    /\ UNCHANGED <<data, last_edited_df, current_date, sort_column, sort_ascending,
                   chart_group, edits>>

\* lines 373-374 and 579-580
toggle_chart_group ==
    /\ chart_group' = IF chart_group = "Category" THEN "Activity" ELSE "Category"
    /\ UNCHANGED <<data, last_edited_df, current_date, sort_column, sort_ascending,
                   files, edits, saves>>

CalcIdle ==
    /\ calc_in = <<>>
    /\ calc_out = <<>>
    /\ calc_again = <<>>
    /\ calc_calls = 0

ChartIdle ==
    /\ chart_df = <<>>
    /\ chart_field = "Category"
    /\ chart_out = NoDataChart
    /\ summary_out = NoSummary
    /\ render_pc = "start"

Init == AppInit /\ CalcIdle /\ ChartIdle

Next ==
    \/ PrevDay /\ UNCHANGED <<calcVars, chartVars>>
    \/ NextDay /\ UNCHANGED <<calcVars, chartVars>>
    \/ EditCell /\ UNCHANGED <<calcVars, chartVars>>
    \/ AddRow /\ UNCHANGED <<calcVars, chartVars>>
    \/ DeleteRow /\ UNCHANGED <<calcVars, chartVars>>
    \/ SortButton /\ UNCHANGED <<calcVars, chartVars>>
    \/ Recalculate /\ UNCHANGED <<calcVars, chartVars>>
    \/ Save /\ UNCHANGED <<calcVars, chartVars>>
    \/ toggle_chart_group /\ UNCHANGED <<calcVars, chartVars>>

Spec == Init /\ [][Next]_vars

---------------------------------------------------------------------------
(* calculate_metrics called on a table: once, then on its own result *)

\* derived fields a row can carry when it is handed to calculate_metrics:
\* none yet, zero, or the 45 minutes of earlier Start/End contents
StaleMetrics == {<<NanNum, NanNum>>, <<Num(0), Num(0)>>, <<Num(45), Num(62)>>}

TimedRow(start, end, stale) ==
    Row(start, end, StrCell(<<"W">>), StrCell(<<"a">>), StrCell(EmptyStr),
        stale[1], stale[2])

\* two-digit hours and minutes, in and out of range
GridTexts ==
    {T(<<a, b>>, <<c, d>>) : a \in {"0", "2"}, b \in {"0", "3", "5", "9"},
                             c \in {"0", "1", "3", "6"}, d \in {"0", "5"}}

OtherTexts ==
    {EmptyStr, NanStr, <<"x">>, <<" ">>, T(<<"9">>, <<"5">>),
     <<" ">> \o Clock(9, 0) \o <<" ">>}

CalcCells ==
    {StrCell(t) : t \in GridTexts \cup OtherTexts} \cup {NoneCell, NanCell}

DayClocks == {Clock(hour, minute) : hour \in 0..23, minute \in 0..59}

CalcRows ==
    {TimedRow(st, en, stale) : st \in CalcCells, en \in CalcCells, stale \in StaleMetrics}
    \cup {TimedRow(StrCell(st), StrCell(en), <<Num(0), Num(0)>>) :
             st \in {Clock(0, 0), Clock(23, 59)}, en \in DayClocks}

CompanionRows ==
    {TimedRow(StrCell(Clock(23, 30)), StrCell(Clock(0, 15)), <<NanNum, NanNum>>),
     TimedRow(StrCell(EmptyStr), StrCell(Clock(9, 0)), <<Num(45), Num(62)>>),
     TimedRow(StrCell(<<"x">>), StrCell(Clock(9, 0)), <<Num(45), Num(62)>>)}

CalcTables ==
    {<<>>} \cup
    {<<r>> \o more : r \in CalcRows,
                     more \in UNION {[1..n -> CompanionRows] : n \in 0..(MaxCalcRows - 1)}}

CalcInit ==
    /\ AppInit
    /\ ChartIdle
    /\ calc_in \in CalcTables
    /\ calc_out = <<>>
    /\ calc_again = <<>>
    /\ calc_calls = 0

CalcCall ==
    /\ calc_calls = 0
    /\ calc_out' = calculate_metrics(calc_in)
    /\ calc_calls' = 1
    /\ UNCHANGED <<calc_in, calc_again>>

CalcCallAgain ==
    /\ calc_calls = 1
    /\ calc_again' = calculate_metrics(calc_out)
    /\ calc_calls' = 2
    /\ UNCHANGED <<calc_in, calc_out>>

CalcNext ==
    \/ CalcCall /\ UNCHANGED <<appVars, chartVars>>
    \/ CalcCallAgain /\ UNCHANGED <<appVars, chartVars>>

SpecCalc == CalcInit /\ [][CalcNext]_vars

---------------------------------------------------------------------------
(* The chart and the summary drawn from a table, lines 582-588 and 673-721 *)

ChartRows ==
    {Row(tm[1], tm[2], cat, act, StrCell(EmptyStr), tm[3], tm[4]) :
        tm \in {<<StrCell(EmptyStr), StrCell(EmptyStr), NanNum, NanNum>>,
                <<StrCell(Clock(23, 30)), StrCell(Clock(0, 15)), Num(45), Num(62)>>,
                <<StrCell(Clock(0, 0)), StrCell(Clock(11, 40)), Num(700), Num(972)>>},
        cat \in {StrCell(EmptyStr), StrCell(<<"W">>), StrCell(<<"w">>),
                 StrCell(NanStr), NoneCell},
        act \in {StrCell(<<"a">>), NoneCell}}

ChartTables == UNION {[1..n -> ChartRows] : n \in 0..MaxChartRows}

ChartInit ==
    /\ AppInit
    /\ CalcIdle
    /\ chart_df \in ChartTables
    /\ chart_field \in {"Category", "Activity"}
    /\ chart_out = NoDataChart
    /\ summary_out = NoSummary
    /\ render_pc = "start"

RenderChart ==
    /\ render_pc = "start"
    /\ chart_out' = create_simple_pie_chart(chart_df, chart_field)
    /\ render_pc' = "chart"
    /\ UNCHANGED <<chart_df, chart_field, summary_out>>

RenderSummary ==
    /\ render_pc = "chart"
    /\ summary_out' = SummaryStatistics(chart_df)
    /\ render_pc' = "done"
    /\ UNCHANGED <<chart_df, chart_field, chart_out>>

ChartNext ==
    \/ RenderChart /\ UNCHANGED <<appVars, calcVars>>
    \/ RenderSummary /\ UNCHANGED <<appVars, calcVars>>

SpecChart == ChartInit /\ [][ChartNext]_vars

---------------------------------------------------------------------------
(* The sort buttons pressed on a session table, lines 520-534 *)

\* rows as the session holds them: metrics computed from Start and End
SortRows ==
    {RowMetrics(Row(st, StrCell(Clock(0, 15)), cat, StrCell(<<"a">>),
                    StrCell(EmptyStr), Num(0), Num(0))) :
        st \in {StrCell(EmptyStr), StrCell(Clock(23, 30)), StrCell(Clock(0, 15)), NoneCell},
        cat \in {StrCell(<<"W">>), NoneCell}}

SortTables == UNION {[1..n -> SortRows] : n \in 0..MaxSortRows}

SortInit ==
    /\ CalcIdle
    /\ ChartIdle
    /\ files = [d \in Days |-> NoFile]
    /\ current_date = 0
    /\ chart_group = "Category"
    /\ sort_column = "None"
    /\ sort_ascending = TRUE
    /\ data \in SortTables
    /\ last_edited_df = edit_df(data)
    /\ edits = 0
    /\ saves = 0

SortAnyColumn == \E c \in col_names : sort_data_by_column(c)

SortNext == SortAnyColumn /\ UNCHANGED <<calcVars, chartVars>>

SpecSort == SortInit /\ [][SortNext]_vars

---------------------------------------------------------------------------
(* Properties *)

\* a time the program can parse: text that strptime accepts once trimmed
Parses(c) == c.k = "str" /\ Strptime(Strip(c.s)).ok
ParsedMinutes(c) ==
    LET t == Strptime(Strip(c.s)) IN t.hour * 60 + t.minute

\* an empty or absent time: "", None or NaN
Missing(c) == c.k # "str" \/ c.s = EmptyStr

\* a non-empty text that is not a time
Malformed(c) == c.k = "str" /\ c.s # EmptyStr /\ ~Parses(c)

\* a zero-padded 24-hour HH:MM text, read digit by digit
IsHHMM(c) ==
    /\ c.k = "str"
    /\ Len(c.s) = 5
    /\ c.s[3] = ":"
    /\ \A p \in {1, 2, 4, 5} : c.s[p] \in Digits
    /\ 10 * DigitVal(c.s[1]) + DigitVal(c.s[2]) <= 23
    /\ 10 * DigitVal(c.s[4]) + DigitVal(c.s[5]) <= 59
HHMMMinutes(c) ==
    (10 * DigitVal(c.s[1]) + DigitVal(c.s[2])) * 60
        + 10 * DigitVal(c.s[4]) + DigitVal(c.s[5])

MinutesPerDay == 24 * 60

\* the duration a row's Start and End stand for
ExpectedDuration(row) ==
    IF Parses(row.Start) /\ Parses(row.End)
    THEN (ParsedMinutes(row.End) - ParsedMinutes(row.Start) + MinutesPerDay)
             % MinutesPerDay
    ELSE 0

IsZero(row) == row.Duration = Num(0) /\ row.Pct = Num(0)

\* tenths is total / 720 * 100 rounded to one decimal place
RoundedTenths(tenths, total) ==
    /\ 2 * (tenths * TOTAL_MINUTES - total * 1000) <= TOTAL_MINUTES
    /\ 2 * (total * 1000 - tenths * TOTAL_MINUTES) <= TOTAL_MINUTES

\* C1: in every state of the session every row's Duration (min) and % of 12h
\* are the values computed from its current Start and End, 0 and 0.0 when
\* either is missing or unparseable.
C1_DerivedFollowsTimes ==
    \A i \in 1..Len(data) :
        /\ data[i].Duration = Num(ExpectedDuration(data[i]))
        /\ data[i].Pct = Num(Round1(ExpectedDuration(data[i])))

\* C2: a row whose Start or End is empty or absent comes back from
\* calculate_metrics with Duration (min) 0 and % of 12h 0.0, whatever it held.
C2_MissingGivesZero ==
    calc_calls >= 1 =>
        \A i \in 1..Len(calc_in) :
            (Missing(calc_in[i].Start) \/ Missing(calc_in[i].End))
                => IsZero(calc_out[i])

\* C3: a row whose Start or End is a non-empty text that is not a time comes
\* back with 0 and 0.0, and the other rows of the table are computed as usual.
C3_MalformedGivesZero ==
    calc_calls >= 1 =>
        /\ Len(calc_out) = Len(calc_in)
        /\ \A i \in 1..Len(calc_in) :
              /\ (Malformed(calc_in[i].Start) \/ Malformed(calc_in[i].End))
                    => IsZero(calc_out[i])
              /\ (Parses(calc_in[i].Start) /\ Parses(calc_in[i].End))
                    => calc_out[i].Duration = Num(ExpectedDuration(calc_in[i]))

\* C4: for valid HH:MM Start and End with End at or after Start the duration
\* is End's minutes of the day minus Start's; equal times give 0.
C4_SameDayDuration ==
    calc_calls >= 1 =>
        \A i \in 1..Len(calc_in) :
            (/\ IsHHMM(calc_in[i].Start)
             /\ IsHHMM(calc_in[i].End)
             /\ HHMMMinutes(calc_in[i].End) >= HHMMMinutes(calc_in[i].Start))
                => calc_out[i].Duration =
                       Num(HHMMMinutes(calc_in[i].End) - HHMMMinutes(calc_in[i].Start))

C4_Witness ==
    /\ calc_calls >= 1
    /\ \E i \in 1..Len(calc_in) :
          /\ calc_in[i].Start = StrCell(Clock(23, 59))
          /\ calc_in[i].End = StrCell(Clock(23, 59))
          /\ calc_out[i].Duration = Num(0)
    /\ \E i \in 1..Len(calc_in) :
          /\ calc_in[i].Start = StrCell(Clock(23, 30))
          /\ calc_in[i].End = StrCell(Clock(0, 15))

\* C5: for valid HH:MM Start and End with End earlier than Start the duration
\* is End's minutes + 1440 - Start's minutes, and every duration computed from
\* two valid times lies in 0..1439.
C5_OvernightDuration ==
    calc_calls >= 1 =>
        \A i \in 1..Len(calc_in) :
            (IsHHMM(calc_in[i].Start) /\ IsHHMM(calc_in[i].End)) =>
                /\ calc_out[i].Duration.v \in 0..(MinutesPerDay - 1)
                /\ HHMMMinutes(calc_in[i].End) < HHMMMinutes(calc_in[i].Start)
                      => calc_out[i].Duration =
                             Num(HHMMMinutes(calc_in[i].End) + MinutesPerDay
                                 - HHMMMinutes(calc_in[i].Start))

C5_Witness ==
    /\ calc_calls >= 1
    /\ \E i \in 1..Len(calc_in) :
          /\ calc_in[i].Start = StrCell(Clock(23, 59))
          /\ calc_in[i].End = StrCell(Clock(0, 0))
          /\ calc_out[i].Duration = Num(1)
    /\ \E i \in 1..Len(calc_in) :
          /\ calc_in[i].Start = StrCell(Clock(23, 30))
          /\ calc_in[i].End = StrCell(Clock(0, 15))
          /\ calc_out[i].Duration = Num(45)

IsLateShift(row) ==
    row.Start = StrCell(Clock(23, 30)) /\ row.End = StrCell(Clock(0, 15))

\* C6 as stated: Start 23:30 and End 00:15 give Duration (min) 45 and
\* % of 12h 6.3.
C6_LateShiftHalfUp ==
    calc_calls >= 1 =>
        \A i \in 1..Len(calc_in) :
            IsLateShift(calc_in[i])
                => calc_out[i].Duration = Num(45) /\ calc_out[i].Pct = Num(63)

\* C6 amended: Start 23:30 and End 00:15 give Duration (min) 45 and % of 12h
\* 6.2: 45 / 720 * 100 is exactly 6.25 and round() takes the tie to the even
\* tenth.
C6_LateShiftHalfEven ==
    calc_calls >= 1 =>
        \A i \in 1..Len(calc_in) :
            IsLateShift(calc_in[i])
                => calc_out[i].Duration = Num(45) /\ calc_out[i].Pct = Num(62)

C6_Witness ==
    /\ calc_calls >= 1
    /\ \E i \in 1..Len(calc_in) :
          /\ IsLateShift(calc_in[i])
          /\ calc_in[i].Duration = NanNum
          /\ calc_out[i].Duration = Num(45)

\* C7: for a row with valid Start and End, % of 12h is Duration / 720 * 100
\* rounded to one decimal place: in tenths it is within one half of
\* Duration * 1000 / 720, it is 0 exactly when the duration is 0, and it is
\* exact where nothing has to be rounded.
C7_PercentOfDuration ==
    calc_calls >= 1 =>
        \A i \in 1..Len(calc_in) :
            (Parses(calc_in[i].Start) /\ Parses(calc_in[i].End)) =>
                LET d == calc_out[i].Duration.v
                    p == calc_out[i].Pct.v
                IN  /\ ~calc_out[i].Duration.nan /\ ~calc_out[i].Pct.nan
                    /\ RoundedTenths(p, d)
                    /\ (p = 0) <=> (d = 0)
                    /\ (d * 1000) % TOTAL_MINUTES = 0
                          => p * TOTAL_MINUTES = d * 1000

C7_Witness ==
    /\ calc_calls >= 1
    /\ \E i \in 1..Len(calc_in) :
          /\ calc_in[i].Start = StrCell(Clock(0, 0))
          /\ calc_in[i].End = StrCell(Clock(1, 30))
          /\ calc_out[i].Duration = Num(90)
          /\ calc_out[i].Pct = Num(125)

\* C10: calculate_metrics applied to its own result returns that result
\* unchanged, for every table, also those with empty or malformed times.
C10_Idempotent ==
    calc_calls = 2 => calc_again = calc_out

C10_Witness ==
    /\ calc_calls = 2
    /\ \E i \in 1..Len(calc_in) :
          /\ Parses(calc_in[i].Start) /\ Parses(calc_in[i].End)
          /\ calc_in[i].Duration = NanNum
          /\ calc_again[i].Duration.v > 0
    /\ \E i \in 1..Len(calc_in) :
          /\ Malformed(calc_in[i].Start)
          /\ calc_in[i].Duration = Num(45)
          /\ calc_again[i].Duration = Num(0)

\* a text made of whitespace only
Blank(c) == c.k = "str" /\ c.s # EmptyStr /\ Strip(c.s) = EmptyStr

\* two rows that differ only in the whitespace around Start and End
SameTrimmed(a, b) ==
    /\ a.Start.k = "str" /\ a.End.k = "str" /\ b.Start.k = "str" /\ b.End.k = "str"
    /\ Strip(a.Start.s) = Strip(b.Start.s)
    /\ Strip(a.End.s) = Strip(b.End.s)
    /\ a.Duration = b.Duration
    /\ a.Pct = b.Pct

\* C11: whitespace around Start and End is ignored: rows whose times differ
\* only in leading and trailing whitespace come back with the same
\* Duration (min) and % of 12h, and a row with a whitespace-only time comes
\* back with 0 and 0.0.
C11_PaddingIgnored ==
    calc_calls >= 1 =>
        /\ \A i, j \in 1..Len(calc_in) :
              SameTrimmed(calc_in[i], calc_in[j])
                  => /\ calc_out[i].Duration = calc_out[j].Duration
                     /\ calc_out[i].Pct = calc_out[j].Pct
        /\ \A i \in 1..Len(calc_in) :
              (Blank(calc_in[i].Start) \/ Blank(calc_in[i].End)) => IsZero(calc_out[i])

\* the five text values of a row
TextOf(row) == <<row.Start, row.End, row.Category, row.Activity, row.Comment>>

\* a saved table with rows, every text value of them a string
AllPresent(rows) ==
    /\ Len(rows) >= 1
    /\ \A i \in 1..Len(rows) : \A c \in TextColumns : rows[i][c].k = "str"

\* the session data holds the rows of the file, in the file's order, with
\* derived fields that follow from Start and End
ShowsSaved(df, rows) ==
    /\ Len(df) = Len(rows)
    /\ \A i \in 1..Len(rows) :
          /\ TextOf(df[i]) = TextOf(rows[i])
          /\ df[i].Duration = Num(ExpectedDuration(df[i]))
          /\ df[i].Pct = Num(Round1(ExpectedDuration(df[i])))

\* C12: when the session arrives by navigation at a date whose file was saved
\* with rows of present strings, the session data has the saved rows: as
\* many, in the same order, with the same five text values, the derived
\* fields recomputed from Start and End; edits made after the Save are gone.
C12_ReloadShowsSaved ==
    [][(/\ current_date' # current_date
        /\ files[current_date'].exists
        /\ AllPresent(files[current_date'].rows))
          => ShowsSaved(data', files[current_date'].rows)]_vars

Occurrences(seq, r) == Cardinality({i \in 1..Len(seq) : seq[i] = r})

\* the two tables hold the same rows, each as often
SameRows(a, b) ==
    /\ Len(a) = Len(b)
    /\ \A i \in 1..Len(a) : Occurrences(a, a[i]) = Occurrences(b, a[i])

\* the rows with a value in column by come first, in the direction given,
\* the rows without one after them
OrderedBy(df, by, ascending) ==
    \A i, j \in 1..Len(df) :
        i < j =>
            /\ IsNa(df[i], by) => IsNa(df[j], by)
            /\ (~IsNa(df[i], by) /\ ~IsNa(df[j], by)) =>
                  IF ascending THEN ~KeyLess(df[j], df[i], by)
                  ELSE ~KeyLess(df[i], df[j], by)

\* C13: a press of the sort button of column c negates sort_ascending and
\* keeps sort_column when c is the sort column already, and otherwise makes
\* c the sort column, ascending; either way the session data afterwards has
\* the same multiset of rows as before, ordered by c in the new direction.
C13_SortPermutesRows ==
    [][(<<sort_column, sort_ascending>>' # <<sort_column, sort_ascending>>) =>
          /\ sort_column' \in col_names
          /\ sort_column' = sort_column => sort_ascending' = ~sort_ascending
          /\ sort_column' # sort_column => sort_ascending' = TRUE
          /\ SameRows(data, data')
          /\ OrderedBy(data', sort_column', sort_ascending')]_vars

C13_Witness ==
    /\ sort_column = "Start"
    /\ sort_ascending = FALSE
    /\ Len(data) = 3
    /\ data[1].Start = StrCell(Clock(23, 30))
    /\ data[2].Start = StrCell(Clock(0, 15))
    /\ data[3].Start = NoneCell

\* a grouping value that names a group: present, not "" and not "nan"
NamesGroup(c) == c.k = "str" /\ c.s # EmptyStr /\ c.s # NanStr

Buckets(seq) == {seq[n] : n \in 1..Len(seq)}

\* C8: in the pie chart's aggregation and in the summary's Category Breakdown
\* a row whose grouping field is empty, absent or the missing-value
\* placeholder contributes to no bucket, and when no row qualifies there is
\* no bucket and the chart is the "No data" placeholder.
C8_UnnamedGroupsExcluded ==
    render_pc = "done" =>
        /\ \A b \in Buckets(chart_out.buckets) : b.key # EmptyStr /\ b.key # NanStr
        /\ (\A i \in 1..Len(chart_df) : ~NamesGroup(chart_df[i][chart_field]))
              => chart_out = NoDataChart
        /\ \A b \in Buckets(summary_out.breakdown) : b.key # EmptyStr /\ b.key # NanStr
        /\ (\A i \in 1..Len(chart_df) : ~NamesGroup(chart_df[i].Category))
              => summary_out.breakdown = <<>>

\* the rows the pie chart aggregates
Qualifying(df, field) ==
    {i \in 1..Len(df) : NamesGroup(df[i][field]) /\ ~df[i].Duration.nan}

\* C9: the pie chart has exactly one bucket per distinct value of the grouping
\* field among the qualifying rows, values compared as exact strings; a
\* bucket's minutes are the sum of Duration (min) over its rows and its
\* Percent is that sum / 720 * 100 rounded to one decimal place, not clamped:
\* above 720 minutes it is above 100.
C9_BucketsPartitionRows ==
    (render_pc # "start" /\ chart_out.label = "chart") =>
        LET q == Qualifying(chart_df, chart_field)
            bs == chart_out.buckets
        IN  /\ {b.key : b \in Buckets(bs)} = {chart_df[i][chart_field].s : i \in q}
            /\ Len(bs) = Cardinality({chart_df[i][chart_field].s : i \in q})
            /\ \A b \in Buckets(bs) :
                  /\ b.minutes =
                        SumDuration(chart_df, {i \in q : chart_df[i][chart_field].s = b.key})
                  /\ RoundedTenths(b.Percent, b.minutes)
                  /\ b.minutes > TOTAL_MINUTES => b.Percent > 1000

C9_Witness ==
    /\ render_pc = "done"
    /\ chart_out.label = "chart"
    /\ Len(chart_df) = 2
    /\ \E b \in Buckets(chart_out.buckets) :
          /\ b.key = <<"W">>
          /\ b.minutes = 1400
          /\ b.Percent = 1944

====
